---- MODULE Spec2Model ----
(***************************************************************************)
(* Model of scripts/backup_to_cloud.py (class BackupUtils): one backup run *)
(* from the parsed command line through the constructor and doWork.        *)
(*                                                                         *)
(* Entry names are sequences of one-character strings, so that the name    *)
(* pattern, the suffix tests and the timestamp formatting are computed the *)
(* way the script computes them.  A datetime is a record of its civil      *)
(* fields; comparisons go through Instant (proleptic ordinal day, second   *)
(* of the day, microsecond), which is the order of datetime objects.       *)
(***************************************************************************)
EXTENDS Integers, Sequences, FiniteSets, TLC

VARIABLES
    args,            \* self.args (the parsed options, rewritten by __init__)
    pc,              \* position of the run in main / doWork
    exc,             \* exception that ended the run, "none" while running
    error_flags,     \* self.error_flags
    dst,             \* self.dst
    archive_path,    \* self.archive_path
    tempdir,         \* self.tempdir
    last_full_path,  \* self.last_full_path
    diff_after_full, \* keys of self.diff_after_full, in insertion order
    fs,              \* local file system: dst root, its parent, the temp dir
    remote,          \* remote folder: whether it exists, the names in it
    clock,           \* seconds elapsed on the wall clock since the start
    scan,            \* cleanLocalFolder: whether it ran, and the listing it read
    faults,          \* the external commands of the run that exit non-zero,
                     \* by their position among the commands run
    log              \* external commands and removals issued, in order

vars == <<args, pc, exc, error_flags, dst, archive_path, tempdir,
          last_full_path, diff_after_full, fs, remote, clock, scan, faults, log>>

-----------------------------------------------------------------------------
(* Bounds of the model *)

\* largest number of seconds the wall clock advances during the run
MaxElapsed == 1
\* largest number of entries drawn for a directory or remote listing
MaxEntries == 2
\* largest number of diff folders newer than the newest full folder
MaxDiffs == 2
\* largest number of external commands that fail in one run
MaxFaults == 1

\* range(100) in mkDst
MaxAttempts == 100

-----------------------------------------------------------------------------
(* Characters and small helpers *)

DigitChars == <<"0", "1", "2", "3", "4", "5", "6", "7", "8", "9">>

IsDigit(c) == \E i \in 1..10 : DigitChars[i] = c

DigitVal(c) == (CHOOSE i \in 1..10 : DigitChars[i] = c) - 1

Range(s) == {s[i] : i \in 1..Len(s)}

RECURSIVE Pow10(_)
Pow10(k) == IF k = 0 THEN 1 ELSE 10 * Pow10(k - 1)

\* int(m.group(k)) on a run of digits
RECURSIVE ToInt(_)
ToInt(s) == IF Len(s) = 0 THEN 0
            ELSE 10 * ToInt(SubSeq(s, 1, Len(s) - 1)) + DigitVal(s[Len(s)])

\* zero-padded decimal field of strftime (%Y, %m, %d, %H, %M, %S)
Fmt(n, w) == [i \in 1..w |-> DigitChars[((n \div Pow10(w - i)) % 10) + 1]]

\* str(i) for a non-negative int
RECURSIVE Str(_)
Str(n) == IF n < 10 THEN <<DigitChars[n + 1]>>
          ELSE Str(n \div 10) \o <<DigitChars[(n % 10) + 1]>>

\* s[-k:] of a Python string
Tail_(s, k) == IF Len(s) <= k THEN s ELSE SubSeq(s, Len(s) - k + 1, Len(s))

SufDiff == <<"_", "d", "i", "f", "f">>
Ext7z == <<".", "7", "z">>
ExtZip == <<".", "z", "i", "p">>

\* re.search of a literal in s
Contains(s, lit) ==
    \E i \in 1..(Len(s) - Len(lit) + 1) : SubSeq(s, i, i + Len(lit) - 1) = lit

\* re.search("_diff.(7z|zip)", s): the dot matches any one character
SearchDiffArchive(s) ==
    \E i \in 1..Len(s) :
        /\ i + 5 <= Len(s)
        /\ SubSeq(s, i, i + 4) = SufDiff
        /\ \/ /\ i + 7 <= Len(s)
              /\ SubSeq(s, i + 6, i + 7) = <<"7", "z">>
           \/ /\ i + 8 <= Len(s)
              /\ SubSeq(s, i + 6, i + 8) = <<"z", "i", "p">>

-----------------------------------------------------------------------------
(* datetime *)

IsLeap(y) == (y % 4 = 0) /\ ((y % 100 # 0) \/ (y % 400 = 0))

DaysInMonth(y, m) ==
    IF m = 2 THEN (IF IsLeap(y) THEN 29 ELSE 28)
    ELSE IF m \in {4, 6, 9, 11} THEN 30 ELSE 31

RECURSIVE DaysBeforeMonth(_, _)
DaysBeforeMonth(y, m) ==
    IF m = 1 THEN 0 ELSE DaysBeforeMonth(y, m - 1) + DaysInMonth(y, m - 1)

DaysBeforeYear(y) ==
    (y - 1) * 365 + ((y - 1) \div 4) - ((y - 1) \div 100) + ((y - 1) \div 400)

\* datetime(year=..., ...) accepts exactly these field values
ValidDate(y, m, d, H, M, S) ==
    /\ y \in 1..9999
    /\ m \in 1..12
    /\ d \in 1..DaysInMonth(y, m)
    /\ H \in 0..23
    /\ M \in 0..59
    /\ S \in 0..59

\* the value datetime objects are ordered by
Instant(t) ==
    [days |-> DaysBeforeYear(t.year) + DaysBeforeMonth(t.year, t.month) + t.day,
     secs |-> t.hour * 3600 + t.minute * 60 + t.second,
     us   |-> t.us]

\* a < b on datetime objects
Before(a, b) ==
    \/ a.days < b.days
    \/ a.days = b.days /\ a.secs < b.secs
    \/ a.days = b.days /\ a.secs = b.secs /\ a.us < b.us

\* t - timedelta(days=n)
MinusDays(i, n) == [i EXCEPT !.days = @ - n]

\* datetime.strftime('%Y%m%d_%H%M%S')
strftime(t) ==
    Fmt(t.year, 4) \o Fmt(t.month, 2) \o Fmt(t.day, 2) \o <<"_">>
        \o Fmt(t.hour, 2) \o Fmt(t.minute, 2) \o Fmt(t.second, 2)

-----------------------------------------------------------------------------
(* Name decoding and classification *)

\* re.match("(\d{4})(\d{2})(\d{2})_(\d{2})(\d{2})(\d{2})(.*)$", name)
MatchesPattern(name) ==
    /\ Len(name) >= 15
    /\ \A i \in 1..8 : IsDigit(name[i])
    /\ name[9] = "_"
    /\ \A i \in 10..15 : IsDigit(name[i])

getDateFromName(name) ==
    IF ~MatchesPattern(name)
    THEN [kind |-> "none"]
    ELSE LET y == ToInt(SubSeq(name, 1, 4))
             m == ToInt(SubSeq(name, 5, 6))
             d == ToInt(SubSeq(name, 7, 8))
             H == ToInt(SubSeq(name, 10, 11))
             M == ToInt(SubSeq(name, 12, 13))
             S == ToInt(SubSeq(name, 14, 15))
         IN  IF ~ValidDate(y, m, d, H, M, S)
             THEN [kind |-> "raise"]
             ELSE [kind   |-> "ok",
                   date   |-> Instant([year |-> y, month |-> m, day |-> d,
                                       hour |-> H, minute |-> M, second |-> S,
                                       us |-> 0]),
                   suffix |-> SubSeq(name, 16, Len(name))]

\* a scan of a listing raises when decoding one of its names raises
ScanRaises(listing) == \E n \in listing : getDateFromName(n).kind = "raise"

DateOf(name) == getDateFromName(name).date

Decoded(listing) == {n \in listing : getDateFromName(n).kind = "ok"}

\* findOldFolders: (full_list, diff_list) as sets of names
FullFolders(listing) ==
    {n \in Decoded(listing) : Len(getDateFromName(n).suffix) = 0}

DiffFolders(listing) ==
    {n \in Decoded(listing) : getDateFromName(n).suffix = SufDiff}

\* findOldZipArchives: (zip_full_list, zip_diff_list) as sets of names
IsArchiveSuffix(suffix) ==
    Tail_(suffix, 3) = Ext7z \/ Tail_(suffix, 4) = ExtZip

ZipDiffs(listing) ==
    {n \in Decoded(listing) :
        /\ IsArchiveSuffix(getDateFromName(n).suffix)
        /\ Contains(getDateFromName(n).suffix, SufDiff)}

ZipFulls(listing) ==
    {n \in Decoded(listing) :
        /\ IsArchiveSuffix(getDateFromName(n).suffix)
        /\ ~Contains(getDateFromName(n).suffix, SufDiff)}

\* cleanRemoteFolder's own classification of the remote listing
RemoteDiffArchives(listing) ==
    {n \in Decoded(listing) : SearchDiffArchive(n)}

RemoteFullArchives(listing) ==
    {n \in Decoded(listing) :
        /\ ~SearchDiffArchive(n)
        /\ getDateFromName(n).suffix \in {Ext7z, ExtZip}}

-----------------------------------------------------------------------------
(* Paths and the local file system *)

\* basename of the folder given with --dst, and of the mkdtemp() folder
RootName == <<"b", "k">>
TmpName == <<"t", "m", "p">>

\* a path is a directory of the model and an entry name in it
RootPath == [dir |-> "parent", name |-> RootName]
TmpPath == [dir |-> "systmp", name |-> TmpName]

\* the modelled directory a path denotes, for os.path.join(path, name)
DirId(p) == IF p = TmpPath THEN "tmp" ELSE "root"

Join(p, name) == [dir |-> DirId(p), name |-> name]

\* entries whose name carries an extension are files, the others folders
IsDirName(name) == "." \notin Range(name)

\* os.path.isdir(p)
IsDir(fsx, p) == p.name \in fsx[p.dir] /\ IsDirName(p.name)

Exists(fsx, p) == p.name \in fsx[p.dir]

\* os.makedirs(p)
MakeDir(fsx, p) == [fsx EXCEPT ![p.dir] = @ \cup {p.name}]

\* shutil.rmtree(p) / os.remove(p): the entry goes, and with a folder its content
Remove(fsx, p) ==
    LET gone == [fsx EXCEPT ![p.dir] = @ \ {p.name}]
    IN  IF p = TmpPath THEN [gone EXCEPT !["tmp"] = {}]
        ELSE IF p = RootPath THEN [gone EXCEPT !["root"] = {}]
        ELSE gone

\* os.listdir(self.dst_root), empty when dst_root is None or no folder
RootListing(a, fsx) ==
    IF a.dst /\ IsDir(fsx, RootPath) THEN fsx["root"] ELSE {}

-----------------------------------------------------------------------------
(* The wall clock *)

\* datetime.now() when e seconds have elapsed since the start of the run
Now(e) == [year |-> 2024, month |-> 1, day |-> 13,
           hour |-> 12, minute |-> 0, second |-> e, us |-> 0]

\* the snapshot time k days before the start of the run
DaysAgo(k) == [year |-> 2024, month |-> 1, day |-> 13 - k,
               hour |-> 12, minute |-> 0, second |-> 0, us |-> 0]

Perms(S) ==
    {s \in [1..Cardinality(S) -> S] : \A x \in S : \E i \in DOMAIN s : s[i] = x}

\* a set to draw one element from, the empty set standing in for no element
SetOrEmpty(S) == IF S = {} THEN {{}} ELSE {{x} : x \in S}
\* the sequence holding the element of a set of at most one element
SetToSeq1(S) == IF S = {} THEN <<>> ELSE <<CHOOSE x \in S : TRUE>>

-----------------------------------------------------------------------------
(* __init__: setCompareDst, mkDst, --cleanall normalisation *)

\* setCompareDst: the full folder sorted last by date
LastFull(listing) ==
    LET full_list == FullFolders(listing)
    IN  IF full_list = {} THEN {}
        ELSE {CHOOSE f \in full_list :
                \A g \in full_list : ~Before(DateOf(f), DateOf(g))}

\* setCompareDst: the diff folders filtered into self.diff_after_full
DiffsAfter(listing) ==
    LET last == LastFull(listing)
    IN  {d \in DiffFolders(listing) :
            \E f \in last : Before(DateOf(f), DateOf(d))}

\* mkDst: the name tried at attempt i, the clock reading e seconds
Candidate(i, e) == strftime(Now(e)) \o (IF i > 0 THEN Str(i) ELSE <<>>)

\* mkDst: the clock reads e0 before attempt tickAt and e1 from it on
ReadAt(i, e0, e1, tickAt) == IF i < tickAt THEN e0 ELSE e1

\* mkDst: for i in range(100), from attempt i on: self.dst after the loop, left
\* alone when every candidate is an existing folder, and the last clock reading
RECURSIVE TryFrom(_, _, _, _, _, _)
TryFrom(i, fsx, base, e0, e1, tickAt) ==
    IF i >= MaxAttempts
    THEN [dst |-> base, read |-> ReadAt(i - 1, e0, e1, tickAt)]
    ELSE LET dst_datetime == Join(base, Candidate(i, ReadAt(i, e0, e1, tickAt)))
         IN  IF ~IsDir(fsx, dst_datetime)
             THEN [dst |-> dst_datetime, read |-> ReadAt(i, e0, e1, tickAt)]
             ELSE TryFrom(i + 1, fsx, base, e0, e1, tickAt)

\* mkDst: the ways the clock may advance while the loop runs: the reading e1 it
\* jumps to and the attempt it jumps at; only one reading is made when the
\* first candidate is free
ClockTicks(fsx, base, e0) ==
    IF ~IsDir(fsx, Join(base, Candidate(0, e0)))
    THEN {<<e0, MaxAttempts>>}
    ELSE {<<e1, tickAt>> : e1 \in e0..MaxElapsed, tickAt \in {1, MaxAttempts}}

\* mkDst: self.dst with the "_diff" suffix of an incremental run
WithDiff(picked, inc) ==
    IF inc THEN [picked EXCEPT !.name = @ \o SufDiff] ELSE picked

Construct ==
    /\ pc = "main"
    /\ \E order \in Perms(IF args.incremental
                            THEN DiffsAfter(RootListing(args, fs)) ELSE {}),
          tick \in ClockTicks(IF args.dst THEN fs ELSE MakeDir(fs, TmpPath),
                              IF args.dst THEN RootPath ELSE TmpPath, clock) :
        LET e1 == tick[1]
            tickAt == tick[2]
            listing == RootListing(args, fs)
            scanFails == args.incremental /\ ScanRaises(listing)
            last == IF args.incremental THEN LastFull(listing) ELSE {}
            inc == args.incremental /\ last # {}
            \* mkDst
            fs1 == IF args.dst THEN fs ELSE MakeDir(fs, TmpPath)
            base == IF args.dst THEN RootPath ELSE TmpPath
            tried == TryFrom(0, fs1, base, clock, e1, tickAt)
            newdst == WithDiff(tried.dst, inc)
            \* assert os.path.isdir(self.dst); assert not os.path.isdir(self.dst)
            found == IsDir(fs1, base)
            fresh == ~IsDir(fs1, newdst)
            fs2 == IF ~args.noexec THEN MakeDir(fs1, newdst) ELSE fs1
            \* --cleanall
            a1 == [args EXCEPT !.incremental = inc]
            a2 == IF args.cleanall
                  THEN [a1 EXCEPT
                          !.clean_local_after =
                              IF @ = {} THEN {1} ELSE @,
                          !.cleanall = ~inc]
                  ELSE a1
        IN  IF scanFails
            THEN /\ exc' = "ValueError"
                 /\ pc' = "exit"
                 /\ UNCHANGED <<args, error_flags, dst, archive_path, tempdir,
                                last_full_path, diff_after_full, fs, remote,
                                clock, scan, faults, log>>
            ELSE IF ~found
            THEN /\ exc' = "AssertionError"
                 /\ pc' = "exit"
                 /\ args' = a1
                 /\ last_full_path' = last
                 /\ diff_after_full' = IF inc THEN order ELSE <<>>
                 /\ tempdir' = ~args.dst
                 /\ dst' = base
                 /\ fs' = fs1
                 /\ UNCHANGED <<error_flags, archive_path, remote, clock, scan,
                                faults, log>>
            ELSE IF ~fresh
            THEN /\ exc' = "AssertionError"
                 /\ pc' = "exit"
                 /\ args' = a1
                 /\ last_full_path' = last
                 /\ diff_after_full' = IF inc THEN order ELSE <<>>
                 /\ tempdir' = ~args.dst
                 /\ dst' = newdst
                 /\ fs' = fs1
                 /\ clock' = tried.read
                 /\ UNCHANGED <<error_flags, archive_path, remote, scan, faults, log>>
            ELSE /\ pc' = "backupFolders"
                 /\ args' = a2
                 /\ last_full_path' = last
                 /\ diff_after_full' = IF inc THEN order ELSE <<>>
                 /\ tempdir' = ~args.dst
                 /\ dst' = newdst
                 /\ archive_path' = newdst
                 /\ fs' = fs2
                 /\ clock' = tried.read
                 /\ UNCHANGED <<exc, error_flags, remote, scan, faults, log>>

-----------------------------------------------------------------------------
(* shell and the stages of doWork *)

\* shell: subprocess.run is reached unless --noexec (and not force_exe)
Executes(a, force_exe) == ~a.noexec \/ force_exe

\* one line of the log: a command that ran, or a local removal that happened
Entry(op, arg, ok) == [op |-> op, arg |-> arg, ok |-> ok]

\* number of external commands run so far
Ran(l) == Len(SelectSeq(l, LAMBDA e : e.op # "rm"))

\* result.returncode == 0 for the k-th command run after those of l; a command
\* whose precondition the world does not meet fails whatever the environment
Succeeds(l, k, possible) == possible /\ (Ran(l) + k) \notin faults

\* backupFolder: the --compare-dest arguments, in order
CompareDest == IF args.incremental
               THEN SetToSeq1(last_full_path) \o diff_after_full
               ELSE <<>>

\* backupFolders: one rsync per source path that exists
BackupFolders ==
    /\ pc = "backupFolders"
    /\ LET n == Len(SelectSeq(args.src, LAMBDA e : e))
           runs == IF Executes(args, FALSE) THEN n ELSE 0
           res == [i \in 1..runs |-> Succeeds(log, i, TRUE)]
       IN  /\ log' = log \o [i \in 1..runs |-> Entry("rsync", CompareDest, res[i])]
           /\ error_flags' = (error_flags \/ \E i \in 1..runs : ~res[i])
    /\ pc' = "saveMysql"
    /\ UNCHANGED <<args, exc, dst, archive_path, tempdir, last_full_path,
                   diff_after_full, fs, remote, clock, scan, faults>>

\* doWork: if self.args.mysql: self.saveMysql()
SaveMysql ==
    /\ pc = "saveMysql"
    /\ LET runs == args.mysql /\ Executes(args, FALSE)
           ok == ~runs \/ Succeeds(log, 1, TRUE)
       IN  /\ log' = IF runs THEN Append(log, Entry("mysqldump", <<>>, ok))
                     ELSE log
           /\ error_flags' = (error_flags \/ ~ok)
    /\ pc' = "zipBackup"
    /\ UNCHANGED <<args, exc, dst, archive_path, tempdir, last_full_path,
                   diff_after_full, fs, remote, clock, scan, faults>>

\* doWork: if not self.args.nocompress: self.zipBackup()
ZipBackup ==
    /\ pc = "zipBackup"
    /\ LET runs == ~args.nocompress /\ Executes(args, FALSE)
           target == [dst EXCEPT !.name = @ \o (IF args.zip THEN ExtZip ELSE Ext7z)]
           ok == ~runs \/ Succeeds(log, 1, TRUE)
       IN  /\ archive_path' = IF args.nocompress THEN archive_path ELSE target
           /\ log' = IF runs THEN Append(log, Entry("archive", <<target.name>>, ok))
                     ELSE log
           /\ fs' = IF runs /\ ok THEN MakeDir(fs, target) ELSE fs
           /\ error_flags' = (error_flags \/ ~ok)
    /\ pc' = "uploadToRemote"
    /\ UNCHANGED <<args, exc, dst, tempdir, last_full_path, diff_after_full,
                   remote, clock, scan, faults>>

\* doWork: if self.args.remote: self.uploadToRemote()
\* createRemoteFolder (rclone lsd, ignore_error=True; rclone mkdir), rclone copy
UploadToRemote ==
    /\ pc = "uploadToRemote"
    /\ LET runs == args.remote /\ Executes(args, FALSE)
           lsd == ~runs \/ Succeeds(log, 1, remote.exists)
           mk == lsd \/ Succeeds(log, 2, TRUE)
           l1 == IF runs THEN <<Entry("lsd", <<>>, lsd)>> ELSE <<>>
           l2 == IF runs /\ ~lsd THEN <<Entry("mkdir", <<>>, mk)>> ELSE <<>>
           cp == ~runs \/ ~mk \/ Succeeds(log \o l1 \o l2, 1, Exists(fs, archive_path))
           l3 == IF runs /\ mk
                 THEN <<Entry("copy", <<archive_path.name>>, cp)>>
                 ELSE <<>>
           sent == IF runs /\ mk /\ cp /\ ~IsDirName(archive_path.name)
                   THEN {archive_path.name} ELSE {}
       IN  /\ log' = log \o l1 \o l2 \o l3
           /\ remote' = IF runs /\ mk
                        THEN [exists |-> TRUE, files |-> remote.files \cup sent]
                        ELSE remote
           /\ error_flags' = (error_flags \/ ~mk \/ ~cp)
    /\ pc' = "cleanLocalFolder"
    /\ UNCHANGED <<args, exc, dst, archive_path, tempdir, last_full_path,
                   diff_after_full, fs, clock, scan, faults>>

-----------------------------------------------------------------------------
(* cleanLocalFolder *)

\* doWork: if not self.error_flags and self.args.clean_..._after is not None
\* (variant: the error flag is not consulted)
CleanupDue_IgnoringErrors(flags, after) == after # {}

CleanupDue(flags, after) == ~flags /\ after # {}

\* a set of names as a sequence in ascending date order
RECURSIVE SortByDate(_)
SortByDate(S) ==
    IF S = {} THEN <<>>
    ELSE LET x == CHOOSE x \in S : \A y \in S : ~Before(DateOf(y), DateOf(x))
         IN  <<x>> \o SortByDate(S \ {x})

\* (variant: the slice [0:-1] is missing, no entry is set aside)
LastSorted_NoneSetAside(listing) == {}

\* sorted(full_list + zip_full_list, key=date)[-1]: the sort is stable, so among
\* the entries of the greatest date an archive (listed after the folders) comes
\* last, and among several such archives the one the directory listing gave last
LastSorted(listing) ==
    LET zips == ZipFulls(listing)
        fulls == FullFolders(listing) \cup zips
        newest == {f \in fulls : \A g \in fulls : ~Before(DateOf(f), DateOf(g))}
    IN  IF newest \cap zips # {} THEN newest \cap zips ELSE newest

\* full_before_target: the fulls but the last one, older than target_date
FullBeforeTarget(listing, last, target_date) ==
    {f \in (FullFolders(listing) \cup ZipFulls(listing)) \ last :
        Before(DateOf(f), target_date)}

\* (variant: measured against the oldest full of full_before_target)
DiffBeforeFull_Oldest(listing, aged) ==
    {d \in DiffFolders(listing) \cup ZipDiffs(listing) :
        aged # {} /\ \A f \in aged : Before(DateOf(d), DateOf(f))}

\* the diffs appended to tobe_deleted_list: older than the newest full of
\* full_before_target
DiffBeforeFull(listing, aged) ==
    {d \in DiffFolders(listing) \cup ZipDiffs(listing) :
        \E f \in aged : Before(DateOf(d), DateOf(f))}

\* the paths cleanLocalFolder hands to rmdir, in order
RmList(a, listing, last, target_date, arch, folder) ==
    LET aged == FullBeforeTarget(listing, last, target_date)
        plan == SortByDate(DiffBeforeFull(listing, aged))
                    \o (IF a.incremental THEN <<>> ELSE SortByDate(aged))
    IN  [i \in 1..Len(plan) |-> Join(RootPath, plan[i])]
            \o (IF ~a.nocompress /\ a.remote THEN <<arch>> ELSE <<>>)
            \o (IF a.cleanall /\ ~a.nocompress THEN <<folder>> ELSE <<>>)

\* rmdir on each path in turn; os.remove raises on a path that is gone
RECURSIVE RmRun(_, _, _)
RmRun(fsx, paths, done) ==
    IF paths = <<>> THEN [fs |-> fsx, done |-> done, raised |-> FALSE]
    ELSE IF ~Exists(fsx, Head(paths))
    THEN [fs |-> fsx, done |-> done, raised |-> TRUE]
    ELSE RmRun(Remove(fsx, Head(paths)), Tail(paths),
               Append(done, Entry("rm", <<Head(paths).name>>, TRUE)))

\* doWork: if not self.error_flags and clean_local_after is not None
CleanLocalFolder ==
    /\ pc = "cleanLocalFolder"
    /\ LET runs == CleanupDue(error_flags, args.clean_local_after)
           listing == RootListing(args, fs)
       IN  IF ~runs
           THEN /\ pc' = "cleanRemoteFolder"
                /\ UNCHANGED <<exc, fs, clock, scan, log>>
           ELSE IF ScanRaises(listing)
           THEN /\ pc' = "exit"
                /\ exc' = "ValueError"
                /\ UNCHANGED <<fs, clock, scan, log>>
           ELSE \E e \in clock..MaxElapsed, last \in SetOrEmpty(LastSorted(listing)) :
                LET days == CHOOSE d \in args.clean_local_after : TRUE
                    target_date == MinusDays(Instant(Now(e)), days)
                    paths == IF tempdir THEN <<TmpPath>>
                             ELSE RmList(args, listing, last, target_date,
                                         archive_path, dst)
                    out == RmRun(fs, IF args.noexec THEN <<>> ELSE paths, <<>>)
                IN  /\ scan' = [ran |-> TRUE, names |-> listing]
                    /\ clock' = e
                    /\ fs' = out.fs
                    /\ log' = log \o out.done
                    /\ exc' = IF out.raised THEN "FileNotFoundError" ELSE exc
                    /\ pc' = IF out.raised THEN "exit" ELSE "cleanRemoteFolder"
    /\ UNCHANGED <<args, error_flags, dst, archive_path, tempdir,
                   last_full_path, diff_after_full, remote, faults>>

-----------------------------------------------------------------------------
(* cleanRemoteFolder *)

\* the names cleanRemoteFolder hands to rmRemote
RemoteTargets(listing, inc, rm_days) ==
    {n \in (IF inc THEN RemoteDiffArchives(listing)
                   ELSE RemoteFullArchives(listing)) :
        Before(DateOf(n), rm_days)}

\* doWork: if not self.error_flags and clean_remote_after is not None
\* getRemoteFiles runs rclone ls with force_exe; None is returned when it fails
CleanRemoteFolder ==
    /\ pc = "cleanRemoteFolder"
    /\ LET runs == CleanupDue(error_flags, args.clean_remote_after)
       IN  IF ~runs
           THEN /\ exc' = exc
                /\ UNCHANGED <<error_flags, remote, clock, log>>
           ELSE IF ~args.remote
           THEN /\ exc' = "TypeError"
                /\ UNCHANGED <<error_flags, remote, clock, log>>
           ELSE LET ls == Succeeds(log, 1, remote.exists) IN
                IF ~ls
                THEN /\ exc' = "TypeError"
                     /\ error_flags' = TRUE
                     /\ log' = Append(log, Entry("ls", <<>>, FALSE))
                     /\ UNCHANGED <<remote, clock>>
                ELSE IF ScanRaises(remote.files)
                THEN /\ exc' = "ValueError"
                     /\ log' = Append(log, Entry("ls", <<>>, TRUE))
                     /\ UNCHANGED <<error_flags, remote, clock>>
                ELSE \E e \in clock..MaxElapsed :
                     LET days == CHOOSE d \in args.clean_remote_after : TRUE
                         rm_days == MinusDays(Instant(Now(e)), days)
                         targets == IF Executes(args, FALSE)
                                    THEN RemoteTargets(remote.files,
                                                       args.incremental, rm_days)
                                    ELSE {}
                     IN  \E order \in Perms(targets) :
                         LET res == [i \in 1..Len(order) |->
                                        Succeeds(log, 1 + i, TRUE)]
                         IN /\ exc' = exc
                            /\ clock' = e
                            /\ log' = Append(log, Entry("ls", <<>>, TRUE))
                                  \o [i \in 1..Len(order) |->
                                        Entry("delete", <<order[i]>>, res[i])]
                            /\ remote' = [remote EXCEPT !.files =
                                  @ \ {order[i] : i \in {j \in 1..Len(order) : res[j]}}]
                            /\ error_flags' =
                                  (error_flags \/ \E i \in 1..Len(order) : ~res[i])
    /\ pc' = "exit"
    /\ UNCHANGED <<args, dst, archive_path, tempdir, last_full_path,
                   diff_after_full, fs, scan, faults>>

-----------------------------------------------------------------------------
(* Initial states: the parsed command line and the world the run starts in *)

\* name of a snapshot taken k days before the run, with the given suffix
Snap(k, suffix) == strftime(DaysAgo(k)) \o suffix

\* an unrelated file of the destination root
Readme == <<"R", "E", "A", "D", "M", "E", ".", "t", "x", "t">>

\* full folders, diff folders and archives a destination root may hold
LocalUniverse ==
    {Snap(10, <<>>), Snap(5, <<>>),
     Snap(12, SufDiff), Snap(7, SufDiff), Snap(2, SufDiff),
     Snap(5, Ext7z), Snap(7, SufDiff \o Ext7z), Readme}

\* the retention scenario: fulls 10, 5 and 1 days old, diffs 12, 7 and 2 days old
Scenario ==
    {Snap(10, <<>>), Snap(5, <<>>), Snap(1, <<>>),
     Snap(12, SufDiff), Snap(7, SufDiff), Snap(2, SufDiff)}

LocalCatalogs ==
    {S \in SUBSET LocalUniverse : Cardinality(S) <= MaxEntries} \cup {Scenario}

\* --clean_local_after / --clean_remote_after: not given, or a number of days
Thresholds == {{}, {0}, {3}}

NoRemote == [exists |-> FALSE, files |-> {}]

CleanFs(entries) ==
    [parent |-> {RootName}, root |-> entries, tmp |-> {}, systmp |-> {}]

\* the state main() is in when it calls BackupUtils(args)
Start(a, fsx, rem, failing) ==
    /\ args = a
    /\ fs = fsx
    /\ remote = rem
    /\ pc = "main"
    /\ exc = "none"
    /\ error_flags = FALSE
    /\ dst = RootPath
    /\ archive_path = RootPath
    /\ tempdir = FALSE
    /\ last_full_path = {}
    /\ diff_after_full = <<>>
    /\ clock = 0
    /\ scan = [ran |-> FALSE, names |-> {}]
    /\ faults = failing
    /\ log = <<>>

\* the options of a plain full run of one existing source into --dst
Plain ==
    [src |-> <<TRUE>>, remote |-> FALSE, dst |-> TRUE, incremental |-> FALSE,
     zip |-> FALSE, nocompress |-> FALSE, mysql |-> FALSE, noexec |-> FALSE,
     clean_local_after |-> {}, cleanall |-> FALSE, clean_remote_after |-> {}]

\* runs into a persistent destination holding a catalog of earlier snapshots
Init ==
    \E inc \in BOOLEAN, nx \in BOOLEAN, nc \in BOOLEAN, rm \in BOOLEAN,
       ca \in BOOLEAN, cla \in Thresholds, entries \in LocalCatalogs :
        Start([Plain EXCEPT !.remote = rm, !.incremental = inc,
                            !.nocompress = nc, !.noexec = nx,
                            !.clean_local_after = cla, !.cleanall = ca],
              CleanFs(entries), [exists |-> rm, files |-> {}], {})

\* incremental-base selection: a newest full folder, older entries, and up to
\* MaxDiffs diff folders newer than the full; or no full folder at all
BaseCatalogs ==
    {{Snap(5, <<>>)} \cup older \cup newer :
        older \in SUBSET {Snap(10, <<>>), Snap(7, SufDiff)},
        newer \in {D \in SUBSET {Snap(k, SufDiff) : k \in 1..4} :
                     Cardinality(D) <= MaxDiffs}}
      \cup {{}, {Snap(2, SufDiff)}}

InitBase ==
    \E inc \in BOOLEAN, nx \in BOOLEAN, entries \in BaseCatalogs,
       src \in {<<TRUE>>, <<FALSE, TRUE>>, <<TRUE, TRUE>>} :
        Start([Plain EXCEPT !.incremental = inc, !.noexec = nx, !.src = src],
              CleanFs(entries), NoRemote, {})

\* the commands of a run, by position, of which at most MaxFaults fail
FaultSets == {F \in SUBSET (1..7) : Cardinality(F) <= MaxFaults}

\* archives of earlier runs on the remote, 10 and 5 days old
RemoteArchives ==
    {Snap(10, Ext7z), Snap(5, Ext7z),
     Snap(10, SufDiff \o Ext7z), Snap(5, SufDiff \o Ext7z)}

\* whole runs under every combination of stages, with failing commands
InitRun ==
    \E inc \in BOOLEAN, nx \in BOOLEAN, rm \in BOOLEAN,
       d \in BOOLEAN, my \in BOOLEAN, cla \in {{}, {3}}, cra \in {{}, {3}},
       there \in BOOLEAN, F \in FaultSets :
        Start([Plain EXCEPT !.remote = rm, !.dst = d, !.incremental = inc,
                            !.mysql = my, !.noexec = nx,
                            !.clean_local_after = cla,
                            !.clean_remote_after = cra],
              CleanFs({Snap(10, <<>>), Snap(5, <<>>), Snap(7, SufDiff)}),
              IF there THEN [exists |-> TRUE, files |-> RemoteArchives]
                       ELSE NoRemote,
              F)

\* names a remote folder may hold
RemoteUniverse ==
    {Snap(10, Ext7z), Snap(1, ExtZip), Snap(10, SufDiff \o Ext7z),
     Snap(10, <<"1">> \o Ext7z),
     Snap(10, <<"_", "e", "t", "c">> \o Ext7z),
     Snap(10, SufDiff \o Ext7z \o <<".", "b", "a", "k">>),
     Snap(10, SufDiff \o <<"_", "d", "b">> \o ExtZip),
     Readme}

\* remote retention over remote listings, full and incremental runs
InitRemote ==
    \E inc \in BOOLEAN, nx \in BOOLEAN, cra \in {{0}, {3}},
       files \in {S \in SUBSET RemoteUniverse : Cardinality(S) <= MaxEntries} :
        Start([Plain EXCEPT !.remote = TRUE, !.incremental = inc, !.noexec = nx,
                            !.clean_remote_after = cra],
              CleanFs({Snap(5, <<>>)}), [exists |-> TRUE, files |-> files], {})

\* the names mkDst tries first when the clock reads e seconds, all taken
Taken(k, e) == {Candidate(i, e) : i \in 0..(k - 1)}

\* destination roots in which the names mkDst tries are already taken, and a
\* --dst that is no folder
InitDst ==
    \E inc \in BOOLEAN, nx \in BOOLEAN,
       k0 \in {0, 1, 2, MaxAttempts}, k1 \in {0, MaxAttempts},
       old \in {{}, {Snap(5, <<>>)}, {Snap(5, <<>>), Candidate(1, 0) \o SufDiff}},
       around \in {{}, {RootName}, {RootName, RootName \o SufDiff}} :
        Start([Plain EXCEPT !.incremental = inc, !.noexec = nx],
              [parent |-> around,
               root |-> IF RootName \in around
                        THEN old \cup Taken(k0, 0) \cup Taken(k1, 1) ELSE {},
               tmp |-> {}, systmp |-> {}],
              NoRemote, {})

\* names that start like a snapshot name but carry no calendar date or time
Month13 == Fmt(2024, 4) \o Fmt(13, 2) \o Fmt(1, 2) \o <<"_">> \o Fmt(0, 6)
Day00 == Fmt(2024, 4) \o Fmt(1, 2) \o Fmt(0, 2) \o <<"_">> \o Fmt(0, 6)
Hour25 == Fmt(2024, 4) \o Fmt(1, 2) \o Fmt(1, 2) \o <<"_">> \o Fmt(250000, 6)
Feb30 == Fmt(2023, 4) \o Fmt(2, 2) \o Fmt(30, 2) \o <<"_">> \o Fmt(0, 6)
NotADate == <<"n", "o", "t", "_", "a", "_", "d", "a", "t", "e">>

NameUniverse ==
    {Month13, Day00, Hour25, Feb30 \o Ext7z, NotADate, Readme,
     Snap(5, <<>>), Snap(10, <<>>), Snap(7, SufDiff), Snap(10, Ext7z)}

\* directory and remote listings holding arbitrary names
InitNames ==
    \E inc \in BOOLEAN, rm \in BOOLEAN, cla \in {{}, {3}},
       entries \in {S \in SUBSET NameUniverse : Cardinality(S) <= MaxEntries},
       files \in {{}, {Month13 \o Ext7z}, {Snap(10, Ext7z)}} :
        Start([Plain EXCEPT !.remote = rm, !.incremental = inc,
                            !.clean_local_after = cla,
                            !.clean_remote_after = IF rm THEN {3} ELSE {}],
              CleanFs(entries), [exists |-> rm, files |-> files], {})

Next ==
    \/ Construct
    \/ BackupFolders
    \/ SaveMysql
    \/ ZipBackup
    \/ UploadToRemote
    \/ CleanLocalFolder
    \/ CleanRemoteFolder

Spec == Init /\ [][Next]_vars

SpecBase == InitBase /\ [][Next]_vars

SpecRun == InitRun /\ [][Next]_vars

SpecRemote == InitRemote /\ [][Next]_vars

SpecDst == InitDst /\ [][Next]_vars

SpecNames == InitNames /\ [][Next]_vars

-----------------------------------------------------------------------------
(* Vocabulary of the properties *)

\* the catalog of a listing: its Full and its Diff entries, folders and archives
Fulls(listing) == FullFolders(listing) \cup ZipFulls(listing)
Diffs(listing) == DiffFolders(listing) \cup ZipDiffs(listing)

\* the entries of a set of names that carry the greatest timestamp
Newest(S) == {f \in S : \A g \in S : ~Before(DateOf(f), DateOf(g))}

\* cleanLocalFolder ran on a persistent destination; scan.names is the listing it
\* read and fs["root"] what is left of it
LocalCleanupRan == scan.ran /\ args.dst

\* the entries local cleanup removed
Removed == scan.names \ fs["root"]

\* now - thresholdDays at the moment local cleanup read the clock
LocalCutoff ==
    MinusDays(Instant(Now(clock)), CHOOSE d \in args.clean_local_after : TRUE)

\* the retention plan as the specification states it, for one choice of the
\* protected newest full
PlanWith(catalog, protected, cutoff, incremental) ==
    LET candidateFulls == Fulls(catalog) \ protected
        agedFulls == {f \in candidateFulls : Before(DateOf(f), cutoff)}
        pivot == CHOOSE p \in agedFulls :
                    \A q \in agedFulls : ~Before(DateOf(p), DateOf(q))
        cascadeDiffs == {d \in Diffs(catalog) : Before(DateOf(d), DateOf(pivot))}
    IN  IF agedFulls = {} THEN {}
        ELSE IF incremental THEN cascadeDiffs
        ELSE agedFulls \cup cascadeDiffs

\* the fulls a diff is chained to: the nearest fulls by timestamp before it
ChainFulls(catalog, d) ==
    Newest({f \in Fulls(catalog) : Before(DateOf(f), DateOf(d))})

-----------------------------------------------------------------------------
(* C1 *)

-----------------------------------------------------------------------------
(* C2 *)

\* C2 as stated: after local cleanup of a full run (plain retention: no upload,
\* no --cleanall), no surviving Diff entry has lost the Full entries it is
\* chained to, i.e. every surviving Diff with a preceding Full still has one of
\* its nearest preceding Fulls.
C2_CascadeComplete ==
    (/\ LocalCleanupRan
     /\ ~args.incremental /\ ~args.remote /\ ~args.cleanall /\ exc = "none")
        => \A d \in Diffs(scan.names) \cap fs["root"] :
              ChainFulls(scan.names, d) # {}
                  => ChainFulls(scan.names, d) \cap fs["root"] # {}

-----------------------------------------------------------------------------
(* C3 *)

\* the removed set is the specification's plan for some choice of "the" newest full
RemovedIsPlan ==
    \E protected \in SetOrEmpty(Newest(Fulls(scan.names))) :
        Removed = PlanWith(scan.names, protected, LocalCutoff, args.incremental)

\* the scenario of the specification: what the run found besides its own artifacts
ScenarioHolds ==
    (/\ scan.names \ {dst.name, archive_path.name} = Scenario
     /\ args.clean_local_after = {3})
        => Removed = IF args.incremental
                     THEN {Snap(12, SufDiff), Snap(7, SufDiff)}
                     ELSE {Snap(10, <<>>), Snap(5, <<>>),
                           Snap(12, SufDiff), Snap(7, SufDiff)}

\* C3 as stated: with a persistent destination and neither --cleanall nor --remote,
\* the set of entries removed by cleanLocalFolder equals the plan of the
\* specification, and the scenario gives the stated sets.
C3_RemovedEqualsPlan ==
    (LocalCleanupRan /\ ~args.cleanall /\ ~args.remote)
        => RemovedIsPlan /\ ScenarioHolds

\* C3 amended: the same, outside dry-run mode (--noexec), where nothing is removed.
C3_RemovedEqualsPlanWhenExecuting ==
    (LocalCleanupRan /\ ~args.cleanall /\ ~args.remote /\ ~args.noexec)
        => RemovedIsPlan /\ ScenarioHolds

\* the scenario, executed as a full run, has removed both aged fulls and their diffs
C3_Witness ==
    /\ LocalCleanupRan /\ ~args.cleanall /\ ~args.remote /\ ~args.noexec
    /\ ~args.incremental
    /\ scan.names \ {dst.name, archive_path.name} = Scenario
    /\ args.clean_local_after = {3}
    /\ Removed = {Snap(10, <<>>), Snap(5, <<>>), Snap(12, SufDiff), Snap(7, SufDiff)}

-----------------------------------------------------------------------------
(* C4 *)

IsAscending(seq) ==
    \A i \in 1..(Len(seq) - 1) : Before(DateOf(seq[i]), DateOf(seq[i + 1]))

\* C4 as stated: in incremental mode every sync invocation gets as comparison
\* bases the newest Full folder first, then exactly the Diff folders newer than
\* it, oldest first, whatever order the directory listing came in.
C4_BasesFullThenDiffsAscending ==
    \A i \in DOMAIN log :
        (log[i].op = "rsync" /\ args.incremental)
            => /\ Len(log[i].arg) >= 1
               /\ {log[i].arg[1]} = last_full_path
               /\ Range(Tail(log[i].arg)) = Range(diff_after_full)
               /\ Len(log[i].arg) = 1 + Cardinality(Range(diff_after_full))
               /\ IsAscending(Tail(log[i].arg))

-----------------------------------------------------------------------------
(* C9 *)

\* C9 as stated: in --cleanall mode (full run, persistent destination, executed),
\* after cleanLocalFolder the artifact of the current run remains and no other
\* catalog entry does.
C9_CleanAllLeavesOnlyNewest ==
    (/\ LocalCleanupRan
     /\ args.cleanall /\ ~args.incremental /\ ~args.noexec /\ exc = "none")
        => /\ archive_path.name \in fs["root"]
           /\ (Fulls(fs["root"]) \cup Diffs(fs["root"])) \subseteq {archive_path.name}

-----------------------------------------------------------------------------
(* C5 *)

\* C5 as stated: once any external command has exited non-zero, the error flag is
\* set and no local or remote deletion is executed later in the run.
C5_AnyFailureStopsDeletion ==
    \A i \in DOMAIN log :
        ~log[i].ok
            => /\ error_flags
               /\ \A j \in DOMAIN log : j > i => log[j].op \notin {"rm", "delete"}

\* C5 amended: a non-zero exit of the sync, the dump, the archiver, the remote
\* folder creation, the upload or the remote listing sets the error flag for the
\* rest of the run and no local or remote deletion follows it; a failed remote
\* delete sets the flag too but does not stop the deletes that follow it in the
\* same remote cleanup, and a failed remote folder check sets nothing.
C5_FailureStopsDeletion ==
    \A i \in DOMAIN log :
        (~log[i].ok /\ log[i].op # "lsd")
            => /\ error_flags
               /\ log[i].op # "delete"
                    => \A j \in DOMAIN log : j > i => log[j].op \notin {"rm", "delete"}

\* a run with both cleanups requested, ended after its sync failed
C5_Witness ==
    /\ pc = "exit" /\ exc = "none"
    /\ args.clean_local_after # {} /\ args.clean_remote_after # {} /\ args.remote
    /\ \E i \in DOMAIN log : log[i].op = "rsync" /\ ~log[i].ok
    /\ error_flags
    /\ ~scan.ran

-----------------------------------------------------------------------------
(* C6 *)

\* the remote names removed by the run, and the remote listing cleanup read
RemoteDeleted == {log[i].arg[1] : i \in {j \in DOMAIN log : log[j].op = "delete"}}
RemoteListed == remote.files \cup RemoteDeleted

RemoteCutoff ==
    MinusDays(Instant(Now(clock)), CHOOSE d \in args.clean_remote_after : TRUE)

\* C6 as stated: remote cleanup (executed, every delete succeeding) classifies the
\* remote names as the local archive catalog does, and deletes exactly the Diff
\* archives older than the cutoff in an incremental run, exactly the Full
\* archives older than the cutoff in a full run.
C6_RemoteFollowsArchiveCatalog ==
    (/\ pc = "exit" /\ exc = "none" /\ ~error_flags /\ ~args.noexec
     /\ args.remote /\ args.clean_remote_after # {})
        => /\ RemoteDiffArchives(RemoteListed) = ZipDiffs(RemoteListed)
           /\ RemoteFullArchives(RemoteListed) = ZipFulls(RemoteListed)
           /\ RemoteDeleted =
                {n \in (IF args.incremental THEN ZipDiffs(RemoteListed)
                                            ELSE ZipFulls(RemoteListed)) :
                    Before(DateOf(n), RemoteCutoff)}

-----------------------------------------------------------------------------
(* C7 *)

\* C7 as stated: in dry-run mode no step of the run changes the local file system
\* or the remote store.
C7_DryRunChangesNothing ==
    [][args.noexec => (fs' = fs /\ remote' = remote)]_vars

-----------------------------------------------------------------------------
(* C8 *)

\* C8 as stated: decoding a name never raises, whatever the name, so no scan of a
\* directory or remote listing ends the run with the decoder's exception (the
\* only ValueError of the run is the one datetime() raises in getDateFromName).
C8_DecodeNeverRaises == exc # "ValueError"

-----------------------------------------------------------------------------
(* C10 *)

\* every name mkDst can try is an existing folder, whatever the clock reads
AllTaken ==
    \A e \in 0..MaxElapsed : \A i \in 0..(MaxAttempts - 1) :
        IsDir(fs, Join(RootPath, Candidate(i, e)))

\* C10 as stated, for a persistent destination in full and incremental mode: a
\* directory the constructor creates is a new entry inside the destination root,
\* and when all 100 candidates exist the run aborts and creates no directory.
C10_CollisionsAbort ==
    [][(pc = "main" /\ args.dst)
        => /\ fs'["parent"] = fs["parent"]
           /\ AllTaken => (exc' = "AssertionError" /\ fs' = fs)]_vars

====
